---- MODULE Spec2Model ----
(***************************************************************************)
(* A model of python-trie/trie.py: the Node and Trie classes.              *)
(*                                                                         *)
(* A Python str is a sequence of one-character strings.  An Optional[T]    *)
(* is a set with at most one element: None is {} and a present x is {x}.   *)
(* The object heap is the sequence `heap`: a Node object is identified by  *)
(* its index, and a reference to no object (Python's None) is NoNode.      *)
(* A dict is the sequence of its items in insertion order, which is the    *)
(* order in which Python iterates it.                                      *)
(***************************************************************************)
EXTENDS Integers, Sequences, FiniteSets, TLC

\* ------------------------------------------------------------------ bounds
MaxLen == 2
MaxNodes == 4

Alphabet == {"a", "n"}

\* --------------------------------------------------------------- strings
RECURSIVE StrsOfLen(_)
StrsOfLen(n) ==
    IF n = 0 THEN {<<>>}
    ELSE {Append(s, c) : s \in StrsOfLen(n - 1), c \in Alphabet}

Strings == UNION {StrsOfLen(n) : n \in 0..MaxLen}

\* ord(): the code point of a character
Ord(c) == IF c = "a" THEN 97 ELSE 110

\* s < t on Python str: the first differing code point decides, and a
\* proper prefix is smaller than its extensions.
RECURSIVE StrLess(_, _)
StrLess(s, t) ==
    IF t = <<>> THEN FALSE
    ELSE IF s = <<>> THEN TRUE
    ELSE IF Ord(Head(s)) # Ord(Head(t)) THEN Ord(Head(s)) < Ord(Head(t))
    ELSE StrLess(Tail(s), Tail(t))

\* str.startswith
IsPrefix(p, w) == Len(p) <= Len(w) /\ SubSeq(w, 1, Len(p)) = p

\* -------------------------------------------------------------- Optional
None == {}
Some(x) == {x}
Unwrap(o) == CHOOSE x \in o : TRUE

\* ------------------------------------------------------------------ Node
NoNode == 0
Root == 1

\* Node.__init__
Node(key) ==
    [children |-> <<>>, key |-> key, value |-> None, terminal |-> FALSE]

\* dict.get(ch): the mapped node, or None
RECURSIVE Get(_, _)
Get(children, ch) ==
    IF children = <<>> THEN NoNode
    ELSE IF Head(children).k = ch THEN Head(children).n
    ELSE Get(Tail(children), ch)

\* ------------------------------------------------------------------ Trie
VARIABLES
    heap,       \* the Node objects reachable from Trie.root; heap[Root] is the root
    last,       \* the last call made on the trie: its name, argument, return value
    inserted,   \* history: every string passed to insert so far
    stored      \* history: the strings inserted and not deleted since

vars == <<heap, last, inserted, stored>>

\* Faulty variant of the insert loop: the final node gets its value but is
\* not marked terminal.
RECURSIVE InsertLoopNoMark(_, _, _, _)
InsertLoopNoMark(h, curr, s, i) ==
    IF i > Len(s)
    THEN [h EXCEPT ![curr].value = Some(s)]
    ELSE LET child_node == Get(h[curr].children, s[i]) IN
         IF child_node # NoNode
         THEN InsertLoopNoMark(h, child_node, s, i + 1)
         ELSE LET new == Len(h) + 1
                  h2 == Append([h EXCEPT ![curr].children =
                                    Append(@, [k |-> s[i], n |-> new])],
                               Node(Some(s[i])))
              IN InsertLoopNoMark(h2, new, s, i + 1)

\* Faulty variant of the insert loop: an existing child is never reused, a
\* node is created for every character.
RECURSIVE InsertLoopAlwaysNew(_, _, _, _)
InsertLoopAlwaysNew(h, curr, s, i) ==
    IF i > Len(s)
    THEN [h EXCEPT ![curr].terminal = TRUE, ![curr].value = Some(s)]
    ELSE LET new == Len(h) + 1
             h2 == Append([h EXCEPT ![curr].children =
                               Append(@, [k |-> s[i], n |-> new])],
                          Node(Some(s[i])))
         IN InsertLoopAlwaysNew(h2, new, s, i + 1)

\* Faulty variant of the insert loop: every node passed on the way is
\* marked terminal.
RECURSIVE InsertLoopMarkPath(_, _, _, _)
InsertLoopMarkPath(h, curr, s, i) ==
    IF i > Len(s)
    THEN [h EXCEPT ![curr].terminal = TRUE, ![curr].value = Some(s)]
    ELSE LET child_node == Get(h[curr].children, s[i])
             hm == [h EXCEPT ![curr].terminal = TRUE]
         IN
         IF child_node # NoNode
         THEN InsertLoopMarkPath(hm, child_node, s, i + 1)
         ELSE LET new == Len(h) + 1
                  h2 == Append([hm EXCEPT ![curr].children =
                                    Append(@, [k |-> s[i], n |-> new])],
                               Node(Some(s[i])))
              IN InsertLoopMarkPath(h2, new, s, i + 1)

\* Faulty variant of the insert loop: a new node is created without its key.
RECURSIVE InsertLoopNoKey(_, _, _, _)
InsertLoopNoKey(h, curr, s, i) ==
    IF i > Len(s)
    THEN [h EXCEPT ![curr].terminal = TRUE, ![curr].value = Some(s)]
    ELSE LET child_node == Get(h[curr].children, s[i]) IN
         IF child_node # NoNode
         THEN InsertLoopNoKey(h, child_node, s, i + 1)
         ELSE LET new == Len(h) + 1
                  h2 == Append([h EXCEPT ![curr].children =
                                    Append(@, [k |-> s[i], n |-> new])],
                               Node(None))
              IN InsertLoopNoKey(h2, new, s, i + 1)

\* Faulty variant of the insert loop: a node is created for every character
\* and takes the place of the child that was there.
RECURSIVE InsertLoopReplace(_, _, _, _)
InsertLoopReplace(h, curr, s, i) ==
    IF i > Len(s)
    THEN [h EXCEPT ![curr].terminal = TRUE, ![curr].value = Some(s)]
    ELSE LET child_node == Get(h[curr].children, s[i])
             new == Len(h) + 1
             c == h[curr].children
             c2 == IF child_node # NoNode
                   THEN [j \in 1..Len(c) |->
                            IF c[j].k = s[i] THEN [k |-> s[i], n |-> new] ELSE c[j]]
                   ELSE Append(c, [k |-> s[i], n |-> new])
             h2 == Append([h EXCEPT ![curr].children = c2], Node(Some(s[i])))
         IN InsertLoopReplace(h2, new, s, i + 1)

\* Trie.insert: the loop over the characters of s from position i, at node curr
RECURSIVE InsertLoop(_, _, _, _)
InsertLoop(h, curr, s, i) ==
    IF i > Len(s)
    THEN [h EXCEPT ![curr].terminal = TRUE, ![curr].value = Some(s)]
    ELSE LET child_node == Get(h[curr].children, s[i]) IN
         IF child_node # NoNode
         THEN InsertLoop(h, child_node, s, i + 1)
         ELSE LET new == Len(h) + 1
                  h2 == Append([h EXCEPT ![curr].children =
                                    Append(@, [k |-> s[i], n |-> new])],
                               Node(Some(s[i])))
              IN InsertLoop(h2, new, s, i + 1)

insert(h, s) == InsertLoop(h, Root, s, 1)

\* the walk `for ch in s: curr = curr.children.get(ch); if not curr: return`
\* shared by exists, search and delete: the node reached, or NoNode
RECURSIVE Walk(_, _, _, _)
Walk(h, curr, s, i) ==
    IF i > Len(s) THEN curr
    ELSE LET nxt == Get(h[curr].children, s[i]) IN
         IF nxt = NoNode THEN NoNode ELSE Walk(h, nxt, s, i + 1)

\* Faulty variant of exists: the terminal flag of the node reached is not
\* consulted.
existsPathOnly(h, s) == Walk(h, Root, s, 1) # NoNode

\* Trie.exists
exists(h, s) ==
    LET curr == Walk(h, Root, s, 1) IN
    IF curr = NoNode THEN FALSE ELSE h[curr].terminal

\* the ids of the children of a node, in the order of children.items()
Items(children) == [j \in 1..Len(children) |-> children[j].n]

\* Faulty variant of the search loop: only nodes without children are
\* collected.
RECURSIVE SearchLoopLeavesOnly(_, _, _)
SearchLoopLeavesOnly(h, queue, matches) ==
    IF Len(queue) = 0 THEN matches
    ELSE LET node == queue[Len(queue)]
             popped == SubSeq(queue, 1, Len(queue) - 1)
             queue2 == popped \o Items(h[node].children)
         IN SearchLoopLeavesOnly(h, queue2,
                       IF h[node].terminal /\ Len(h[node].children) = 0
                       THEN Append(matches, h[node].value)
                       ELSE matches)

\* Trie.search: the while loop over the list used as a stack
RECURSIVE SearchLoop(_, _, _)
SearchLoop(h, queue, matches) ==
    IF Len(queue) = 0 THEN matches
    ELSE LET node == queue[Len(queue)]
             popped == SubSeq(queue, 1, Len(queue) - 1)
             queue2 == popped \o Items(h[node].children)
         IN SearchLoop(h, queue2,
                       IF h[node].terminal
                       THEN Append(matches, h[node].value)
                       ELSE matches)

\* Faulty variant of the traversal: a child is pushed only if no node with
\* an equal key (Node.__eq__) was popped or is waiting already.
RECURSIVE TraverseSeenByKey(_, _, _, _)
TraverseSeenByKey(h, queue, visited, fuel) ==
    IF Len(queue) = 0 \/ fuel = 0 THEN [queue |-> queue, visited |-> visited]
    ELSE LET node == queue[Len(queue)]
             popped == SubSeq(queue, 1, Len(queue) - 1)
             seen == {h[queue[j]].key : j \in 1..Len(queue)}
                         \cup {h[visited[j]].key : j \in 1..Len(visited)}
             Fresh(c) == h[c].key \notin seen
         IN TraverseSeenByKey(h, popped \o SelectSeq(Items(h[node].children), Fresh),
                              Append(visited, node), fuel - 1)

\* Trie.search: the while loop again, recording the nodes in the order in
\* which they are popped; fuel bounds the number of iterations, and the
\* loop has ended iff the queue returned is empty
RECURSIVE Traverse(_, _, _, _)
Traverse(h, queue, visited, fuel) ==
    IF Len(queue) = 0 \/ fuel = 0 THEN [queue |-> queue, visited |-> visited]
    ELSE LET node == queue[Len(queue)]
             popped == SubSeq(queue, 1, Len(queue) - 1)
         IN Traverse(h, popped \o Items(h[node].children),
                     Append(visited, node), fuel - 1)

\* list.sort() of a list of str: insertion of x into a sorted list, after
\* the elements that are not greater (the sort is stable)
RECURSIVE SortedInsert(_, _)
SortedInsert(sorted, x) ==
    IF sorted = <<>> THEN <<x>>
    ELSE IF StrLess(x, Head(sorted)) THEN <<x>> \o sorted
    ELSE <<Head(sorted)>> \o SortedInsert(Tail(sorted), x)

\* Faulty variant of the sort: the list is left as collected.
SortNone(l) == l

RECURSIVE Sort(_)
Sort(l) ==
    IF l = <<>> THEN <<>>
    ELSE SortedInsert(Sort(SubSeq(l, 1, Len(l) - 1)), l[Len(l)])

\* the str held by each collected node.value
Values(matches) == [j \in 1..Len(matches) |-> Unwrap(matches[j])]

\* Faulty variant of search: no early return for the empty prefix.
searchNoEmptyCheck(h, s) ==
    LET curr == Walk(h, Root, s, 1) IN
    IF curr = NoNode THEN <<>>
    ELSE Sort(Values(SearchLoop(h, <<curr>>, <<>>)))

\* Trie.search
search(h, s) ==
    IF Len(s) = 0 THEN <<>>
    ELSE LET curr == Walk(h, Root, s, 1) IN
         IF curr = NoNode THEN <<>>
         ELSE Sort(Values(SearchLoop(h, <<curr>>, <<>>)))

\* the nodes on the path of s below the root, as far as the path exists
PathNodes(h, s) ==
    {Walk(h, Root, SubSeq(s, 1, k), 1) : k \in 1..Len(s)} \ {NoNode}

\* Faulty variant of delete: every node on the path of s is cleared.
deleteClearsPath(h, s) ==
    LET curr == Walk(h, Root, s, 1) IN
    IF curr = NoNode THEN [heap |-> h, res |-> FALSE]
    ELSE IF h[curr].terminal /\ h[curr].value = Some(s)
         THEN [heap |-> [n \in 1..Len(h) |->
                            IF n \in PathNodes(h, s)
                            THEN [h[n] EXCEPT !.terminal = FALSE, !.value = None]
                            ELSE h[n]],
               res |-> TRUE]
         ELSE [heap |-> h, res |-> FALSE]

\* Faulty variant of delete: the children of the deleted node are dropped.
deletePrune(h, s) ==
    LET curr == Walk(h, Root, s, 1) IN
    IF curr = NoNode THEN [heap |-> h, res |-> FALSE]
    ELSE IF h[curr].terminal /\ h[curr].value = Some(s)
         THEN [heap |-> [h EXCEPT ![curr].terminal = FALSE,
                                  ![curr].value = None,
                                  ![curr].children = <<>>],
               res |-> TRUE]
         ELSE [heap |-> h, res |-> FALSE]

\* Faulty variant of delete: any node reached is cleared and reported as
\* deleted.
deletePathOnly(h, s) ==
    LET curr == Walk(h, Root, s, 1) IN
    IF curr = NoNode THEN [heap |-> h, res |-> FALSE]
    ELSE [heap |-> [h EXCEPT ![curr].terminal = FALSE, ![curr].value = None],
          res |-> TRUE]

\* Faulty variant of delete: the value is cleared, the terminal flag is not.
deleteKeepTerminal(h, s) ==
    LET curr == Walk(h, Root, s, 1) IN
    IF curr = NoNode THEN [heap |-> h, res |-> FALSE]
    ELSE IF h[curr].terminal /\ h[curr].value = Some(s)
         THEN [heap |-> [h EXCEPT ![curr].value = None], res |-> TRUE]
         ELSE [heap |-> h, res |-> FALSE]

\* Faulty variant of delete: the terminal flag is cleared, the value is not.
deleteKeepValue(h, s) ==
    LET curr == Walk(h, Root, s, 1) IN
    IF curr = NoNode THEN [heap |-> h, res |-> FALSE]
    ELSE IF h[curr].terminal /\ h[curr].value = Some(s)
         THEN [heap |-> [h EXCEPT ![curr].terminal = FALSE], res |-> TRUE]
         ELSE [heap |-> h, res |-> FALSE]

\* Faulty variant of delete: a missing path is reported as a deletion.
deleteMissingTrue(h, s) ==
    LET curr == Walk(h, Root, s, 1) IN
    IF curr = NoNode THEN [heap |-> h, res |-> TRUE]
    ELSE IF h[curr].terminal /\ h[curr].value = Some(s)
         THEN [heap |-> [h EXCEPT ![curr].terminal = FALSE,
                                  ![curr].value = None],
               res |-> TRUE]
         ELSE [heap |-> h, res |-> FALSE]

\* Trie.delete: the heap after the call and the value returned
delete(h, s) ==
    LET curr == Walk(h, Root, s, 1) IN
    IF curr = NoNode THEN [heap |-> h, res |-> FALSE]
    ELSE IF h[curr].terminal /\ h[curr].value = Some(s)
         THEN [heap |-> [h EXCEPT ![curr].terminal = FALSE,
                                  ![curr].value = None],
               res |-> TRUE]
         ELSE [heap |-> h, res |-> FALSE]

\* --------------------------------------------------------------- actions
Call(op, arg, res) == [op |-> op, arg |-> arg, res |-> res]

\* Trie.__init__
Init ==
    /\ heap = <<Node(None)>>
    /\ last = Call("new", <<>>, None)
    /\ inserted = {}
    /\ stored = {}

CallInsert(s) ==
    /\ Len(insert(heap, s)) <= MaxNodes
    /\ heap' = insert(heap, s)
    /\ last' = Call("insert", s, None)
    /\ inserted' = inserted \cup {s}
    /\ stored' = stored \cup {s}

\* Faulty variant of the exists call: the walk creates the nodes it misses.
CallExistsCreating(s) ==
    /\ last' = Call("exists", s, exists(heap, s))
    /\ heap' = [InsertLoop(heap, Root, s, 1) EXCEPT
                   ![Walk(InsertLoop(heap, Root, s, 1), Root, s, 1)] =
                       IF Walk(heap, Root, s, 1) = NoNode
                       THEN Node(Some(s[Len(s)]))
                       ELSE heap[Walk(heap, Root, s, 1)]]
    /\ UNCHANGED <<inserted, stored>>

CallExists(s) ==
    /\ last' = Call("exists", s, exists(heap, s))
    /\ UNCHANGED <<heap, inserted, stored>>

CallSearch(s) ==
    /\ last' = Call("search", s, search(heap, s))
    /\ UNCHANGED <<heap, inserted, stored>>

CallDelete(s) ==
    /\ heap' = delete(heap, s).heap
    /\ last' = Call("delete", s, delete(heap, s).res)
    /\ stored' = stored \ {s}
    /\ UNCHANGED inserted

Next ==
    \E s \in Strings :
        \/ CallInsert(s)
        \/ CallExists(s)
        \/ CallSearch(s)
        \/ CallDelete(s)

Spec == Init /\ [][Next]_vars

\* The calls that change the trie, taken without recording them in `last`
\* and without the queries in between: every trie that Spec reaches, with
\* its history of inserted and stored strings, is reached here.
Inserts(s) ==
    /\ Len(insert(heap, s)) <= MaxNodes
    /\ heap' = insert(heap, s)
    /\ inserted' = inserted \cup {s}
    /\ stored' = stored \cup {s}
    /\ UNCHANGED last

Deletes(s) ==
    /\ heap' = delete(heap, s).heap
    /\ stored' = stored \ {s}
    /\ UNCHANGED <<inserted, last>>

NextMutators ==
    \E s \in Strings :
        \/ Inserts(s)
        \/ Deletes(s)

SpecMutators == Init /\ [][NextMutators]_vars

\* The calls that change the trie, recorded in `last`, without the queries
\* in between.
NextCalls ==
    \E s \in Strings :
        \/ CallInsert(s)
        \/ CallDelete(s)

SpecCalls == Init /\ [][NextCalls]_vars

\* ------------------------------------------------------- derived notions
NodeIds == 1..Len(heap)

\* the node reached from the root by the characters of s, or NoNode
NodeAt(s) == Walk(heap, Root, s, 1)

\* the node whose children dict holds id
Parent(id) ==
    CHOOSE p \in NodeIds : \E j \in 1..Len(heap[p].children) : heap[p].children[j].n = id

\* the keys on the path from the root's child down to node id, concatenated
RECURSIVE KeyPath(_)
KeyPath(id) ==
    IF id = Root THEN <<>>
    ELSE Append(KeyPath(Parent(id)), Unwrap(heap[id].key))

\* the elements of a list
Range(l) == {l[j] : j \in 1..Len(l)}

\* lexicographic order, character by character: s and t agree before some
\* position where s has ended or holds the smaller character
LexLess(s, t) ==
    \E i \in 1..Len(t) :
        /\ i <= Len(s) + 1
        /\ SubSeq(s, 1, i - 1) = SubSeq(t, 1, i - 1)
        /\ \/ i = Len(s) + 1
           \/ Ord(s[i]) < Ord(t[i])

\* the values in the order the traversal of search collects them, unsorted
Collected(s) == Values(SearchLoop(heap, <<NodeAt(s)>>, <<>>))

\* ---------------------------------------------------------------- claims

\* C1: in the state right after insert(s), exists(s) returns true, whatever
\* calls came before.
C1_ExistsAfterInsert ==
    last.op = "insert" => exists(heap, last.arg) = TRUE

\* C1 witness: insert of a two-character word whose path was already there
\* in part, after some word had been deleted.
C1_Witness ==
    /\ last.op = "insert"
    /\ Len(last.arg) = 2
    /\ inserted \ stored # {}
    /\ exists(heap, last.arg)

\* C2: exists(s) is false for every s never passed to insert, also when the
\* path of s is there because s is a prefix of an inserted word.
C2_NeverInsertedNotExists ==
    /\ \A s \in Strings \ inserted : exists(heap, s) = FALSE
    /\ (last.op = "exists" /\ last.arg \notin inserted) => last.res = FALSE

\* C2 witness: exists was called on a never-inserted strict prefix of a
\* stored word, so its path is in the trie.
C2_Witness ==
    /\ last.op = "exists"
    /\ last.arg \notin inserted
    /\ last.arg # <<>>
    /\ NodeAt(last.arg) # NoNode
    /\ \E w \in stored : IsPrefix(last.arg, w)
    /\ last.res = FALSE

\* C3: for non-empty s, search(s) holds exactly the stored words with prefix
\* s, each once.
C3_SearchExact ==
    \A s \in Strings \ {<<>>} :
        LET r == search(heap, s) IN
        /\ Range(r) = {w \in stored : IsPrefix(s, w)}
        /\ Len(r) = Cardinality(Range(r))

\* C3 witness: a search returned two words while another word is stored on
\* an unrelated branch.
C3_Witness ==
    /\ last.op = "search"
    /\ Len(last.res) >= 2
    /\ \E w \in stored : ~IsPrefix(last.arg, w)

\* C4: the result of search(s) is strictly ascending in lexicographic order.
C4_SearchAscending ==
    \A s \in Strings :
        LET r == search(heap, s) IN
        \A i \in 1..(Len(r) - 1) : LexLess(r[i], r[i + 1])

\* C4 witness: a search returned three words that the traversal collected
\* in another order.
C4_Witness ==
    /\ last.op = "search"
    /\ Len(last.res) >= 3
    /\ Collected(last.arg) # last.res

\* C5: search("") returns the empty list, whatever the trie holds.
C5_SearchEmptyPrefix ==
    /\ search(heap, <<>>) = <<>>
    /\ (last.op = "search" /\ last.arg = <<>>) => last.res = <<>>

\* C5 witness: search("") was called while words are stored, "" among them.
C5_Witness ==
    /\ last.op = "search"
    /\ last.arg = <<>>
    /\ <<>> \in stored
    /\ Cardinality(stored) >= 2
    /\ last.res = <<>>

\* C6: delete(s) returns true exactly when s is stored at the call, and a
\* second delete(s) right after a successful one returns false.
C6_DeleteTwice ==
    /\ \A s \in Strings : delete(heap, s).res = (s \in stored)
    /\ (last.op = "delete" /\ last.res = TRUE) =>
           delete(heap, last.arg).res = FALSE

\* C6 witness: the state between the two calls, after a delete that
\* returned true for a word that is a prefix of another stored word.
C6_Witness ==
    /\ last.op = "delete"
    /\ last.res = TRUE
    /\ \E w \in stored : IsPrefix(last.arg, w)
    /\ delete(heap, last.arg).res = FALSE

\* C7: after delete(s), exists(s) is false and every stored word with s as
\* a strict prefix still exists.
C7_DeleteKeepsExtensions ==
    last.op = "delete" =>
        /\ exists(heap, last.arg) = FALSE
        /\ \A w \in stored :
               (IsPrefix(last.arg, w) /\ w # last.arg) => exists(heap, w) = TRUE

\* C7 witness: a successful delete of a non-empty word with a stored
\* extension.
C7_Witness ==
    /\ last.op = "delete"
    /\ last.res = TRUE
    /\ last.arg # <<>>
    /\ \E w \in stored : IsPrefix(last.arg, w) /\ w # last.arg /\ exists(heap, w)

\* C8: delete(s) of a string that is not stored returns false and changes
\* nothing, so every stored word is still stored.
C8_DeleteNotStored ==
    /\ \A s \in Strings \ stored :
           delete(heap, s) = [heap |-> heap, res |-> FALSE]
    /\ (last.op = "delete" /\ last.res = FALSE) =>
           \A w \in stored : exists(heap, w) = TRUE

\* C8 witness: delete returned false in both cases: for a path that ends at
\* an intermediate node of a stored word, while another string's path is
\* not in the trie.
C8_Witness ==
    /\ last.op = "delete"
    /\ last.res = FALSE
    /\ last.arg # <<>>
    /\ last.arg \notin inserted
    /\ NodeAt(last.arg) # NoNode
    /\ \E w \in stored : IsPrefix(last.arg, w)
    /\ \E t \in Strings : NodeAt(t) = NoNode /\ delete(heap, t).res = FALSE

\* C9: a second insert(s) right after insert(s) changes nothing: no node
\* is added, exists(s) stays true and every search result is the same.
C9_InsertIdempotent ==
    last.op = "insert" =>
        LET again == insert(heap, last.arg) IN
        /\ again = heap
        /\ Len(again) = Len(heap)
        /\ exists(again, last.arg) = TRUE
        /\ \A q \in Strings : search(again, q) = search(heap, q)

\* C9 witness: the state after an insert of a two-character word that
\* search returns once.
C9_Witness ==
    /\ last.op = "insert"
    /\ Len(last.arg) = 2
    /\ Len(heap) >= 3
    /\ search(insert(heap, last.arg), last.arg) = <<last.arg>>

\* C10: a node is terminal iff its value is the string spelled by the keys
\* on its path, and a non-terminal node has no value.
C10_TerminalIffValue ==
    \A id \in NodeIds :
        /\ heap[id].terminal <=> heap[id].value = Some(KeyPath(id))
        /\ ~heap[id].terminal => heap[id].value = None
        /\ heap[id].terminal => Len(Unwrap(heap[id].value)) = Len(KeyPath(id))

\* C10 witness: a delete has cleared a node at depth 2 while its parent is
\* still terminal.
C10_Witness ==
    /\ last.op = "delete"
    /\ last.res = TRUE
    /\ Len(last.arg) = 2
    /\ heap[NodeAt(last.arg)].value = None
    /\ heap[Parent(NodeAt(last.arg))].terminal

\* C11: delete(s) changes nothing but the terminal flag and value of the node
\* at the end of the path of s: no node is removed, no children dict and no
\* key changes, and exists(t) and the membership of t in search results are
\* as before for every t other than s.
C11_DeleteFrame ==
    \A s \in Strings :
        LET d == delete(heap, s).heap
            n == NodeAt(s)
        IN
        /\ Len(d) = Len(heap)
        /\ \A id \in NodeIds :
               /\ d[id].children = heap[id].children
               /\ d[id].key = heap[id].key
               /\ id # n => /\ d[id].terminal = heap[id].terminal
                            /\ d[id].value = heap[id].value
        /\ \A t \in Strings \ {s} : exists(d, t) = exists(heap, t)
        /\ \A q \in Strings :
               Range(search(d, q)) \ {s} = Range(search(heap, q)) \ {s}

\* C11 witness: a two-character word was deleted; its node, which has no
\* children, and its parent, which is not terminal, are still in the trie,
\* and another word is still stored.
C11_Witness ==
    \E s \in inserted \ stored :
        /\ Len(s) = 2
        /\ NodeAt(s) # NoNode
        /\ heap[NodeAt(s)].children = <<>>
        /\ ~heap[Parent(NodeAt(s))].terminal
        /\ stored # {}

\* C12: insert(s) removes no node, changes no key, keeps every children
\* entry, changes terminal and value of the final node of the path only and
\* adds nodes on the path of s only; exists(t) is as before for t other
\* than s.
C12_InsertFrame ==
    \A s \in Strings :
        LET i == insert(heap, s)
            fin == Walk(i, Root, s, 1)
        IN
        /\ Len(i) >= Len(heap)
        /\ \A id \in NodeIds :
               /\ i[id].key = heap[id].key
               /\ IsPrefix(heap[id].children, i[id].children)
               /\ i[id].children # heap[id].children => id \in PathNodes(i, s) \cup {Root}
               /\ id # fin => /\ i[id].terminal = heap[id].terminal
                              /\ i[id].value = heap[id].value
        /\ \A id \in (Len(heap) + 1)..Len(i) : id \in PathNodes(i, s)
        /\ \A t \in Strings \ {s} : exists(i, t) = exists(heap, t)

\* C12 witness: the node created last belongs to a stored two-character
\* word below the node of another stored word, and a third word is stored
\* on another branch.
C12_Witness ==
    \E s \in stored :
        /\ Len(s) = 2
        /\ NodeAt(s) = Len(heap)
        /\ \E t \in stored : t # s /\ t # <<>> /\ IsPrefix(t, s) /\ exists(heap, t)
        /\ \E t \in stored : ~IsPrefix(t, s) /\ exists(heap, t)

\* C13: a call of exists or search leaves the whole trie as it was.
C13_QueriesPure ==
    [][last'.op \in {"exists", "search"} => heap' = heap]_vars

\* C13 witness: exists was called for a string whose path is not in a trie
\* that holds words, and the path is still not there.
C13_Witness ==
    /\ last.op = "exists"
    /\ Len(last.arg) = 2
    /\ NodeAt(last.arg) = NoNode
    /\ NodeAt(SubSeq(last.arg, 1, 1)) # NoNode
    /\ stored # {}

\* C14 as stated: in every reachable state the root has no key, is not
\* terminal and has no value, and no other node lacks a key.
C14_RootNeverTerminal ==
    /\ heap[Root].key = None
    /\ heap[Root].terminal = FALSE
    /\ heap[Root].value = None
    /\ \A id \in NodeIds \ {Root} : heap[id].key # None

\* C14 amended: in every reachable state the root has no key and no other
\* node lacks a key; the root is terminal with value "" exactly while the
\* empty string is stored, and otherwise is not terminal and has no value.
C14_RootUnlessEmptyStored ==
    /\ heap[Root].key = None
    /\ \A id \in NodeIds \ {Root} : heap[id].key # None
    /\ heap[Root].terminal = (<<>> \in stored)
    /\ heap[Root].value = (IF <<>> \in stored THEN Some(<<>>) ELSE None)

\* C14 witness: insert("") was called on a trie with other nodes, and the
\* root is terminal.
C14_Witness ==
    /\ last.op = "insert"
    /\ last.arg = <<>>
    /\ Len(heap) >= 3
    /\ heap[Root].terminal

\* the non-empty prefixes of the strings passed to insert so far
Prefixes == UNION {{SubSeq(w, 1, k) : k \in 1..Len(w)} : w \in inserted}

\* C15, in a state: the nodes below the root correspond one to one to the
\* non-empty prefixes of the strings ever inserted, and the key of a node
\* is the character its parent maps it under.
C15_NodesArePrefixes ==
    /\ \A p \in Prefixes : NodeAt(p) # NoNode
    /\ \A p, q \in Prefixes : p # q => NodeAt(p) # NodeAt(q)
    /\ {NodeAt(p) : p \in Prefixes} = NodeIds \ {Root}
    /\ \A id \in NodeIds : \A j \in 1..Len(heap[id].children) :
           heap[heap[id].children[j].n].key = Some(heap[id].children[j].k)

\* C15, in a step: every node stays in the trie, with its key and under
\* the children entries that lead to it, and only insert adds one.
C15_NodesKept ==
    \/ heap' = heap
    \/ /\ Len(heap') >= Len(heap)
       /\ \A id \in NodeIds :
              /\ heap'[id].key = heap[id].key
              /\ IsPrefix(heap[id].children, heap'[id].children)
       /\ Len(heap') > Len(heap) => last'.op = "insert"

\* C15: nodes are created by insert only, one per distinct non-empty prefix
\* of the strings ever inserted, each keyed by the character its parent
\* maps it under, and no node is ever lost.
C15_NodeLifecycle == [] C15_NodesArePrefixes /\ [][C15_NodesKept]_vars

\* C15 witness: words were deleted and their nodes are still in the trie,
\* which holds only nodes of deleted words.
C15_Witness ==
    /\ last.op = "delete"
    /\ last.res = TRUE
    /\ stored = {}
    /\ Len(heap) >= 4

\* the step is a call insert(p) where p is a proper prefix of w, and w was
\* inserted before
InsertsPrefixOf(p, w) ==
    /\ last'.op = "insert"
    /\ last'.arg = p
    /\ w \in inserted
    /\ IsPrefix(p, w)
    /\ p # w

\* C16 as stated: insert(p) of a proper prefix p of a word w inserted before
\* shares no node with the path of w.
C16_SharesNoNodes ==
    [][\A p, w \in Strings :
           InsertsPrefixOf(p, w) =>
               PathNodes(heap', p) \cap PathNodes(heap, w) = {}]_vars

\* C16 amended: insert(p) of a proper prefix p of a word w inserted before
\* creates no node: the path of p is the first len(p) nodes of the path of
\* w, which stays as it is, and only the last node of the path of p changes.
C16_PrefixSharesPath ==
    [][\A p, w \in Strings :
           InsertsPrefixOf(p, w) =>
               /\ Len(heap') = Len(heap)
               /\ PathNodes(heap', p) = PathNodes(heap, p)
               /\ PathNodes(heap', p) \subseteq PathNodes(heap, w)
               /\ Cardinality(PathNodes(heap', p)) = Len(p)
               /\ PathNodes(heap', w) = PathNodes(heap, w)
               /\ \A id \in NodeIds :
                      id # Walk(heap', Root, p, 1) => heap'[id] = heap[id]]_vars

\* C16 witness: a one-character proper prefix of an inserted word was
\* inserted; its node is the parent of that word's node and older than it.
C16_Witness ==
    /\ last.op = "insert"
    /\ Len(last.arg) = 1
    /\ \E w \in inserted :
           /\ IsPrefix(last.arg, w)
           /\ Len(w) = 2
           /\ Parent(NodeAt(w)) = NodeAt(last.arg)
           /\ NodeAt(w) = Len(heap)
           /\ heap[NodeAt(last.arg)].terminal

\* C17: for a stored s, delete(s) followed by insert(s) gives back the very
\* state before the delete and creates no node, so exists(s) is true again
\* and every search result is as before.
C17_DeleteInsertRoundTrip ==
    /\ \A s \in stored :
           LET d == delete(heap, s)
               i == insert(d.heap, s)
           IN
           /\ d.res = TRUE
           /\ d.heap # heap
           /\ Len(i) = Len(heap)
           /\ i = heap
           /\ exists(i, s) = TRUE
           /\ \A q \in Strings : search(i, q) = search(heap, q)
    /\ (last.op = "delete" /\ last.res = TRUE) =>
           LET i == insert(heap, last.arg) IN
           /\ Len(i) = Len(heap)
           /\ exists(i, last.arg) = TRUE
           /\ delete(i, last.arg).heap = heap

\* C17 witness: the state between the two calls: a word with a stored
\* extension was deleted, and inserting it again adds no node.
C17_Witness ==
    /\ last.op = "delete"
    /\ last.res = TRUE
    /\ \E w \in stored : IsPrefix(last.arg, w)
    /\ Len(insert(heap, last.arg)) = Len(heap)
    /\ insert(heap, last.arg) # heap

\* the values of the terminal nodes among ids, in that order
RECURSIVE TerminalValues(_)
TerminalValues(ids) ==
    IF ids = <<>> THEN <<>>
    ELSE IF heap[Head(ids)].terminal
         THEN <<heap[Head(ids)].value>> \o TerminalValues(Tail(ids))
         ELSE TerminalValues(Tail(ids))

\* the nodes at or below the node of s: the nodes of the strings that have
\* s as a prefix
Subtree(s) == {NodeAt(w) : w \in {x \in Strings : IsPrefix(s, x)}} \ {NoNode}

\* C18: when search(s) reaches a node, its loop ends within as many
\* iterations as the trie has nodes, having popped every node at or below
\* the node reached, the node itself first, each exactly once; the result
\* is the sorted values of the terminal nodes among them.
C18_TraversalVisitsSubtreeOnce ==
    (last.op = "search" /\ last.arg # <<>> /\ NodeAt(last.arg) # NoNode) =>
        LET t == Traverse(heap, <<NodeAt(last.arg)>>, <<>>, Len(heap)) IN
        /\ t.queue = <<>>
        /\ Range(t.visited) = Subtree(last.arg)
        /\ Len(t.visited) = Cardinality(Subtree(last.arg))
        /\ t.visited[1] = NodeAt(last.arg)
        /\ SearchLoop(heap, <<NodeAt(last.arg)>>, <<>>) = TerminalValues(t.visited)
        /\ last.res = Sort(Values(TerminalValues(t.visited)))

\* C18 witness: search was called on a prefix whose subtree holds three
\* nodes, two of them with the same key.
C18_Witness ==
    /\ last.op = "search"
    /\ NodeAt(last.arg) # NoNode
    /\ Cardinality(Subtree(last.arg)) >= 3
    /\ \E x, y \in Subtree(last.arg) : x # y /\ heap[x].key = heap[y].key
    /\ Len(last.res) >= 2

\* C19: for non-empty s, w is in search(s) iff exists(w) and s is a prefix
\* of w; so search(s) holds s itself exactly when exists(s).
C19_SearchAgreesWithExists ==
    (last.op = "search" /\ last.arg # <<>>) =>
        /\ Range(last.res) \subseteq Strings
        /\ \A w \in Strings :
               (w \in Range(last.res)) = (exists(heap, w) /\ IsPrefix(last.arg, w))
        /\ (last.arg \in Range(last.res)) = exists(heap, last.arg)

\* C19 witness: search(s) returned words but not s, which was inserted and
\* deleted and does not exist.
C19_Witness ==
    /\ last.op = "search"
    /\ last.arg \in inserted
    /\ Len(last.res) >= 1
    /\ last.arg \notin Range(last.res)
    /\ ~exists(heap, last.arg)

\* the trie a heap holds: for every string, whether a node is at its path
\* and, if so, the node's terminal flag and value
Abs(h) ==
    [s \in Strings |->
        LET n == Walk(h, Root, s, 1) IN
        IF n = NoNode THEN None
        ELSE Some([terminal |-> h[n].terminal, value |-> h[n].value])]

\* C20: insert(a); insert(b) and insert(b); insert(a) give the same trie:
\* the same node paths with the same flags and values, hence the same
\* results of exists and search.  The statement is symmetric in a and b and
\* trivial for a = b, so the pairs with a before b are all the cases.
C20_InsertsCommute ==
    \A a, b \in Strings :
        LexLess(a, b) =>
            LET x == insert(insert(heap, a), b)
                y == insert(insert(heap, b), a)
            IN
            \/ x = y
            \/ /\ Abs(x) = Abs(y)
               /\ Len(x) = Len(y)
               /\ \A q \in Strings :
                      /\ exists(x, q) = exists(y, q)
                      /\ search(x, q) = search(y, q)

\* C20 witness: the root has two children, whose order in its dict is the
\* order of two inserts, and there are two inserts whose order changes
\* which Node object is created first.
C20_Witness ==
    /\ Len(heap[Root].children) = 2
    /\ Cardinality(stored) >= 2
    /\ \E a, b \in Strings :
           /\ LexLess(a, b)
           /\ insert(insert(heap, a), b) # insert(insert(heap, b), a)

====
